---- MODULE Spec2Model ----
(***************************************************************************)
(* minigrep (src/src/lib.rs): grep(args, writer) and the functions it     *)
(* calls, as a state machine.  A string is a sequence of one-character    *)
(* strings; an escape sequence of the colored crate and the newline are   *)
(* one element each.  An output sink is the sequence of the chunks        *)
(* written to it, one chunk per write!/writeln! call.                     *)
(***************************************************************************)
EXTENDS Integers, Sequences, FiniteSets, TLC

\* ------------------------------------------------------------ bounds
\* longest line handed to handle_line on its own (SpecLine)
MaxLen == 5
\* largest line number handed to handle_line on its own (SpecLine)
MaxLineNo == 11
\* most physical lines read in one run, over all its sources
MaxLines == 3
\* most paths on the command line, and most entries a directory walk yields
MaxFiles == 2

\* ------------------------------------------------------------ text
Chars == {"a", "A", "b"}

NL == "\n"
\* colored: bold().red() and purple() open with these and close with RESET
BOLD_RED == "ESC[1;31m"
PURPLE == "ESC[35m"
RESET == "ESC[0m"

RECURSIVE TextsOf(_)
TextsOf(n) ==
    IF n = 0 THEN {<<>>}
    ELSE LET shorter == TextsOf(n - 1)
         IN  shorter \cup {Append(t, c) : t \in {s \in shorter : Len(s) = n - 1}, c \in Chars}

DigitChar(d) == <<"0", "1", "2", "3", "4", "5", "6", "7", "8", "9">>[d + 1]

\* format!("{}", n) of a usize: its decimal digits, most significant first
RECURSIVE Decimal(_)
Decimal(n) ==
    IF n < 10 THEN <<DigitChar(n)>>
    ELSE Append(Decimal(n \div 10), DigitChar(n % 10))

\* &line[from..to], byte offsets counted from 0
Slice(line, from, to) == SubSeq(line, from + 1, to)

\* ------------------------------------------------------------ the regex
\* The dialect modelled: a literal (possibly empty), optionally followed by
\* '$'; one character followed by '*'; and a pattern that does not parse.
Lit(s, anch) == [kind |-> "lit", s |-> s, anch |-> anch]
Star(c) == [kind |-> "star", s |-> <<c>>, anch |-> FALSE]
BadQuery == [kind |-> "bad", s |-> <<"(">>, anch |-> FALSE]

GoodQueries ==
    {Lit(<<>>, FALSE), Lit(<<>>, TRUE), Lit(<<"a">>, FALSE), Lit(<<"a">>, TRUE), Star("a")}

Queries == GoodQueries \cup {BadQuery}

Lower(c) == IF c = "A" THEN "a" ELSE c

CharEq(ins, x, y) == IF ins THEN Lower(x) = Lower(y) ELSE x = y

RECURSIVE RunLength(_, _, _, _)
RunLength(ins, c, line, p) ==
    IF p < Len(line) /\ CharEq(ins, line[p + 1], c)
    THEN 1 + RunLength(ins, c, line, p + 1)
    ELSE 0

\* end of the match of q that starts at offset p, or -1
MatchAt(q, ins, line, p) ==
    IF q.kind = "star" THEN p + RunLength(ins, q.s[1], line, p)
    ELSE LET e == p + Len(q.s)
         IN  IF /\ e <= Len(line)
                /\ \A i \in 1..Len(q.s) : CharEq(ins, line[p + i], q.s[i])
                /\ (q.anch => e = Len(line))
             THEN e
             ELSE -1

\* Regex::find_at: the leftmost match starting at or after `at`, or <<>>
FindAt(q, ins, line, at) ==
    LET starts == {p \in at..Len(line) : MatchAt(q, ins, line, p) >= 0}
    IN  IF starts = {} THEN <<>>
        ELSE LET p == CHOOSE x \in starts : \A y \in starts : x <= y
             IN  <<p, MatchAt(q, ins, line, p)>>

\* Matches::next: after an empty match the search resumes one character on,
\* and an empty match right at the end of the previous match is dropped
RECURSIVE Matches(_, _, _, _, _)
Matches(q, ins, line, last_end, last_match) ==
    IF last_end > Len(line) THEN <<>>
    ELSE LET m == FindAt(q, ins, line, last_end)
         IN  IF m = <<>> THEN <<>>
             ELSE IF m[1] = m[2]
                  THEN IF m[2] = last_match
                       THEN Matches(q, ins, line, m[2] + 1, last_match)
                       ELSE <<m>> \o Matches(q, ins, line, m[2] + 1, m[2])
                  ELSE <<m>> \o Matches(q, ins, line, m[2], m[2])

\* re.find_iter(line): the spans <<start, end>>, left to right
FindIter(a, line) == Matches(a.query, a.insensitive, line, 0, -1)

\* ------------------------------------------------------------ handle_line
None == [some |-> FALSE, str |-> <<>>]
Some(str) == [some |-> TRUE, str |-> str]

\* m.as_str().bold().red() when args.color, m.as_str() otherwise
Emphasis(color, text) == IF color THEN <<BOLD_RED>> \o text \o <<RESET>> ELSE text

\* a slip: offset = m.start()
NextOffsetAtStart(m) == m[1]

\* offset = m.end()
NextOffset(m) == m[2]

\* a slip: found starts out true
FoundAlways(matches) == TRUE

\* a slip: found is set only by a span that is not empty
FoundNonEmpty(matches) == \E i \in 1..Len(matches) : matches[i][1] < matches[i][2]

\* `found` after the loop: set by every iteration, whatever the span's width
Found(matches) == Len(matches) > 0

\* the loop over matches.enumerate(); i counts from 1 here, from 0 in the code
RECURSIVE MatchLoop(_, _, _, _, _, _, _)
MatchLoop(line, matches, i, offset, result, linenumber, a) ==
    IF i > Len(matches) THEN [offset |-> offset, result |-> result]
    ELSE LET m == matches[i]
             numbered == IF i = 1 /\ a.linenumber
                         THEN result \o Decimal(linenumber) \o <<":">>
                         ELSE result
             before == numbered \o Slice(line, offset, m[1])
             marked == before \o Emphasis(a.color, Slice(line, m[1], m[2]))
         IN  MatchLoop(line, matches, i + 1, NextOffset(m), marked, linenumber, a)

HandleLine(line, linenumber, a) ==
    LET matches == FindIter(a, line)
        loop == MatchLoop(line, matches, 1, 0, <<>>, linenumber, a)
    IN  IF Found(matches)
        THEN Some(loop.result \o Slice(line, loop.offset, Len(line)) \o <<NL>>)
        ELSE None

\* ------------------------------------------------------------ state
VARIABLES
    args,       \* Args, as parsed by clap
    pc,         \* where the run is
    panicmsg,   \* the message of the panic that ended the run, or ""
    fi,         \* files handed to handle_file / walk entries taken so far
    filename,   \* handle_file's filename
    found,      \* handle_file's found
    idx,        \* the index enumerate() gives the next item
    consumed,   \* physical lines the current source's lines() has yielded
    total,      \* physical lines read in the run so far
    cur,        \* the item lines() yielded last
    ret,        \* what handle_line returned for it
    writer,     \* chunks written to the writer grep was given
    stdoutv     \* chunks written to the process's standard output

vars == <<args, pc, panicmsg, fi, filename, found, idx, consumed, total, cur, ret, writer, stdoutv>>

\* an item of lines(): Ok(text), or Err for a line that is not valid UTF-8
Ok(text) == [ok |-> TRUE, text |-> text]
Err == [ok |-> FALSE, text |-> <<>>]

\* the lines the sources of a whole run are made of: an empty line, a line
\* of one upper-case character, and a line with two lower-case ones apart
RunTexts == {<<>>, <<"A">>, <<"a", "b", "a">>}
RunItems == {Err} \cup {Ok(t) : t \in RunTexts}

\* one write!/writeln! call: where in the code, for which handle_file call
\* (0: the stream), from which physical line (0: none), and the bytes
Chunk(site, src, line, text) == [site |-> site, src |-> src, line |-> line, text |-> text]

PathName(i) == <<"p">> \o Decimal(i)
FileLists == {[i \in 1..n |-> PathName(i)] : n \in 0..MaxFiles}

\* the path WalkDir gives its k-th entry under dir
EntryName(dir, k) == dir \o <<"/", "e">> \o Decimal(k)

ArgsSet ==
    [query : Queries, insensitive : BOOLEAN, names : BOOLEAN, linenumber : BOOLEAN,
     color : BOOLEAN, recursive : BOOLEAN, filenames : FileLists]

Init ==
    /\ args \in ArgsSet
    /\ pc = "grep"
    /\ panicmsg = ""
    /\ fi = 0
    /\ filename = <<>>
    /\ found = FALSE
    /\ idx = 0
    /\ consumed = 0
    /\ total = 0
    /\ cur = Err
    /\ ret = None
    /\ writer = <<>>
    /\ stdoutv = <<>>

\* a slip: the enumerate() index used as it is, counted from 0
LineNumberFromZero(i) == i

\* linenumber += 1
LineNumber(i) == i + 1

\* a slip: the label goes before every emitted line
LabelEveryLine(f, names) == names

\* found == false && args.names
LabelDue(f, names) == f = FALSE /\ names

\* a slip: the blank line follows every file in both modes
SeparatorAlways(recursive) == TRUE

\* whether from_files writes its blank line when handle_file returns
SeparatorPerFile(recursive) == ~recursive

Panic(msg) ==
    /\ pc' = "panic"
    /\ panicmsg' = msg

\* grep: create_regex, then from_stdin or from_files up to its first loop
Grep ==
    /\ pc = "grep"
    /\ IF args.query.kind = "bad"
       THEN Panic("Error parsing given regexp")
       ELSE IF args.filenames = <<>>
       THEN pc' = "stdin" /\ panicmsg' = panicmsg
       ELSE IF args.recursive
       THEN IF Len(args.filenames) # 1
            THEN Panic("Recursive Search only works for a single directory")
            ELSE pc' = "walk" /\ panicmsg' = panicmsg
       ELSE pc' = "list" /\ panicmsg' = panicmsg
    /\ UNCHANGED <<args, fi, filename, found, idx, consumed, total, cur, ret, writer, stdoutv>>

\* one iteration of from_stdin's loop
StdinLine ==
    /\ pc = "stdin"
    /\ total < MaxLines
    /\ \E item \in RunItems :
        LET out == IF item.ok THEN HandleLine(item.text, LineNumber(idx), args) ELSE None
        IN  /\ cur' = item
            /\ ret' = out
            /\ stdoutv' = IF out.some
                          THEN Append(stdoutv, Chunk("line", 0, consumed + 1, out.str))
                          ELSE stdoutv
    /\ idx' = idx + 1
    /\ consumed' = consumed + 1
    /\ total' = total + 1
    /\ UNCHANGED <<args, pc, panicmsg, fi, filename, found, writer>>

\* stdin is exhausted: from_stdin and grep return Ok(())
StdinEof ==
    /\ pc = "stdin"
    /\ pc' = "done"
    /\ UNCHANGED <<args, panicmsg, fi, filename, found, idx, consumed, total, cur, ret, writer, stdoutv>>

\* handle_file up to its loop: File::open(filename).expect(..)
OpenFile(name, opens) ==
    /\ fi' = fi + 1
    /\ filename' = name
    /\ found' = FALSE
    /\ idx' = 0
    /\ consumed' = 0
    /\ IF opens
       THEN pc' = "lines" /\ panicmsg' = panicmsg
       ELSE Panic("ERROR, file cannot be opened")
    /\ UNCHANGED <<args, total, cur, ret, writer, stdoutv>>

\* from_files, file list: the next filename goes to handle_file
ListFile ==
    /\ pc = "list"
    /\ fi < Len(args.filenames)
    /\ \E opens \in BOOLEAN : OpenFile(args.filenames[fi + 1], opens)

\* from_files, file list: the list is exhausted
ListEnd ==
    /\ pc = "list"
    /\ fi = Len(args.filenames)
    /\ pc' = "done"
    /\ UNCHANGED <<args, panicmsg, fi, filename, found, idx, consumed, total, cur, ret, writer, stdoutv>>

\* from_files, recursive: an entry that filter_map drops or that is no file
WalkSkip ==
    /\ pc = "walk"
    /\ fi < MaxFiles
    /\ fi' = fi + 1
    /\ UNCHANGED <<args, pc, panicmsg, filename, found, idx, consumed, total, cur, ret, writer, stdoutv>>

\* from_files, recursive: an entry that is a file goes to handle_file
WalkFile ==
    /\ pc = "walk"
    /\ fi < MaxFiles
    /\ \E opens \in BOOLEAN : OpenFile(EntryName(args.filenames[1], fi + 1), opens)

\* from_files, recursive: the walk is exhausted, the one blank line
WalkEnd ==
    /\ pc = "walk"
    /\ writer' = Append(writer, Chunk("sep", 0, 0, <<NL>>))
    /\ pc' = "done"
    /\ UNCHANGED <<args, panicmsg, fi, filename, found, idx, consumed, total, cur, ret, stdoutv>>

\* one iteration of handle_file's loop
FileLine ==
    /\ pc = "lines"
    /\ total < MaxLines
    /\ \E item \in RunItems :
        LET out == IF item.ok THEN HandleLine(item.text, LineNumber(idx), args) ELSE None
            label == LabelDue(found, args.names)
            labelled == IF label
                        THEN Append(writer, Chunk("label", fi, 0,
                                                  <<PURPLE>> \o filename \o <<RESET, NL>>))
                        ELSE writer
        IN  /\ cur' = item
            /\ ret' = out
            /\ writer' = IF out.some
                         THEN Append(labelled, Chunk("line", fi, consumed + 1, out.str))
                         ELSE writer
            /\ found' = IF out.some /\ label THEN TRUE ELSE found
    /\ idx' = idx + 1
    /\ consumed' = consumed + 1
    /\ total' = total + 1
    /\ UNCHANGED <<args, pc, panicmsg, fi, filename, stdoutv>>

\* the file is exhausted: handle_file returns to from_files
FileEof ==
    /\ pc = "lines"
    /\ pc' = IF args.recursive THEN "walk" ELSE "list"
    /\ writer' = IF SeparatorPerFile(args.recursive)
                 THEN Append(writer, Chunk("sep", fi, 0, <<NL>>))
                 ELSE writer
    /\ UNCHANGED <<args, panicmsg, fi, filename, found, idx, consumed, total, cur, ret, stdoutv>>

Next ==
    \/ Grep
    \/ StdinLine
    \/ StdinEof
    \/ ListFile
    \/ ListEnd
    \/ WalkSkip
    \/ WalkFile
    \/ WalkEnd
    \/ FileLine
    \/ FileEof

Spec == Init /\ [][Next]_vars

\* ------------------------------------------------------------ handle_line alone
\* handle_line applied once to a line, a line number and the flags it reads
LineArgs ==
    [query : GoodQueries, insensitive : BOOLEAN, names : {FALSE}, linenumber : BOOLEAN,
     color : BOOLEAN, recursive : {FALSE}, filenames : {<<>>}]

InitLine ==
    /\ args \in LineArgs
    /\ pc = "call"
    /\ panicmsg = ""
    /\ fi = 0
    /\ filename = <<>>
    /\ found = FALSE
    /\ idx \in 0..(MaxLineNo - 1)
    /\ consumed = 0
    /\ total = 0
    /\ cur \in {Ok(t) : t \in TextsOf(MaxLen)}
    /\ ret = None
    /\ writer = <<>>
    /\ stdoutv = <<>>

CallHandleLine ==
    /\ pc = "call"
    /\ ret' = HandleLine(cur.text, LineNumber(idx), args)
    /\ pc' = "returned"
    /\ UNCHANGED <<args, panicmsg, fi, filename, found, idx, consumed, total, cur, writer, stdoutv>>

NextLine == CallHandleLine

SpecLine == InitLine /\ [][NextLine]_vars

\* ------------------------------------------------------------ properties
\* the spans the matcher yields on the line read last
Spans == FindIter(args, cur.text)

\* a string without the emphasis the colored crate puts around a match
IsDecoration(t) == t \in {BOLD_RED, RESET}
Plain(str) == SelectSeq(str, LAMBDA t : ~IsDecoration(t))

\* the "N:" prefix of a rendered line
NumberPrefix(n) == IF args.linenumber THEN Decimal(n) \o <<":">> ELSE <<>>

Count(seq, Test(_)) == Len(SelectSeq(seq, Test))

\* C2: for every line with one or more match spans, what handle_line returns
\* is, once the emphasis is taken out, the optional "N:" prefix, then the
\* original line unchanged, then one newline.
C2_RoundTrip ==
    (pc = "returned" /\ Len(Spans) >= 1) =>
        /\ ret.some
        /\ Plain(ret.str) = NumberPrefix(LineNumber(idx)) \o cur.text \o <<NL>>

\* C2 witness: a numbered, emphasised line with text before the first match,
\* between two matches and after the last one
C2_Witness ==
    /\ pc = "returned"
    /\ args.linenumber /\ args.color
    /\ Len(Spans) = 2
    /\ Spans[1][1] > 0 /\ Spans[1][2] < Spans[2][1] /\ Spans[2][2] < Len(cur.text)
    /\ Len(Decimal(LineNumber(idx))) = 2
    /\ ret.some

AllSpansEmpty == Len(Spans) >= 1 /\ \A i \in 1..Len(Spans) : Spans[i][1] = Spans[i][2]

\* C10 as stated: a line on which every span has zero length gives None.
C10_EmptyMatchesGiveNone ==
    (pc = "returned" /\ AllSpansEmpty) => ret = None

\* C10 as amended: a zero-length span counts as a match: a line on which every
\* span has zero length gives Some, the line unchanged after the optional
\* prefix, with one (empty) emphasised segment per span when emphasis is on.
C10_EmptyMatchesGiveLine ==
    (pc = "returned" /\ AllSpansEmpty) =>
        /\ ret.some
        /\ Plain(ret.str) = NumberPrefix(LineNumber(idx)) \o cur.text \o <<NL>>
        /\ Count(ret.str, LAMBDA t : t = BOLD_RED) = IF args.color THEN Len(Spans) ELSE 0

\* C10 witness: a non-empty line whose spans are all empty, returned as Some
C10_Witness ==
    /\ pc = "returned"
    /\ AllSpansEmpty
    /\ Len(Spans) >= 2
    /\ Len(cur.text) >= 2
    /\ args.color
    /\ ret.some

\* everything the run has emitted (one of the two sinks is empty in any run)
Out == stdoutv \o writer

IsDigit(c) == c \in {DigitChar(d) : d \in 0..9}
DigitValue(c) == CHOOSE d \in 0..9 : DigitChar(d) = c

\* the number a rendered line starts with, read back from its digits up to
\* the ':'; -1 when the line does not start with a number and a ':'
RECURSIVE LeadingNumber(_, _, _)
LeadingNumber(str, k, acc) ==
    IF k <= Len(str) /\ IsDigit(str[k])
    THEN LeadingNumber(str, k + 1, acc * 10 + DigitValue(str[k]))
    ELSE IF k > 1 /\ k <= Len(str) /\ str[k] = ":" THEN acc ELSE -1

NumberOf(chunk) == LeadingNumber(chunk.text, 1, 0)

\* a step that reads one physical line from the current source
ReadsLine == total' = total + 1

\* C1: a step that reads a line on which the pattern has no match leaves
\* handle_line's result None and both sinks as they were, in every mode; a
\* step that reads a line and writes anything read a line with a match.
C1_NoMatchNoOutput ==
    [][ReadsLine =>
          /\ (cur'.ok /\ FindIter(args, cur'.text) = <<>>) =>
                (ret' = None /\ writer' = writer /\ stdoutv' = stdoutv)
          /\ (writer' # writer \/ stdoutv' # stdoutv) =>
                (cur'.ok /\ Len(FindIter(args, cur'.text)) >= 1)]_vars

\* C1 witness: in a file, after a line that matched and was written, a line
\* without a match has been read and nothing was added for it
C1_Witness ==
    /\ pc = "lines"
    /\ consumed = 2
    /\ cur.ok /\ Spans = <<>>
    /\ ret = None
    /\ Len(writer) = 1 /\ writer[1].site = "line" /\ writer[1].line = 1

\* C3: with line numbers on, the number every emitted line starts with is the
\* physical position of the line in its own source (counted from 1, Err lines
\* and lines without a match included), so the numbers of one source increase.
C3_LineNumbers ==
    args.linenumber =>
        \A k \in DOMAIN Out :
            Out[k].site = "line" =>
                /\ Out[k].line >= 1
                /\ NumberOf(Out[k]) = Out[k].line
                /\ \A j \in 1..(k - 1) :
                      (Out[j].site = "line" /\ Out[j].src = Out[k].src) =>
                          NumberOf(Out[j]) < NumberOf(Out[k])

\* C3 witness: the first file's only emitted line is its second, numbered 2,
\* and the second file's first line is numbered 1 again
C3_Witness ==
    /\ args.linenumber
    /\ Len(writer) >= 2
    /\ writer[1].site = "line" /\ writer[1].src = 1 /\ NumberOf(writer[1]) = 2
    /\ \E k \in DOMAIN writer :
          writer[k].site = "line" /\ writer[k].src = 2 /\ NumberOf(writer[k]) = 1

\* the path of the src-th file handed to handle_file
SourceName(src) ==
    IF args.recursive THEN EntryName(args.filenames[1], src) ELSE args.filenames[src]

\* the label of a file is written at most once, directly before the first
\* line emitted for that file, and never for a file without an emitted line
LazyLabels ==
    \A k \in DOMAIN writer :
        /\ writer[k].site = "label" =>
              /\ k < Len(writer)
              /\ writer[k + 1].site = "line" /\ writer[k + 1].src = writer[k].src
              /\ \A j \in 1..(k - 1) : writer[j].src # writer[k].src
              /\ writer[k].text = <<PURPLE>> \o SourceName(writer[k].src) \o <<RESET, NL>>
        /\ writer[k].site = "line" =>
              \E j \in 1..(k - 1) : writer[j].site = "label" /\ writer[j].src = writer[k].src

ListMode == ~args.recursive /\ args.filenames # <<>>
WalkMode == args.recursive /\ Len(args.filenames) = 1

C6_LabelOnlyBeforeFirstMatch == (WalkMode /\ args.names) => LazyLabels

\* C6 witness: the walk's first file had a line and no match and left
\* nothing; the second has one label, then its two matching lines
C6_Witness ==
    /\ WalkMode /\ args.names /\ pc = "lines"
    /\ fi = 2 /\ total = 3 /\ consumed = 2
    /\ Len(writer) = 3
    /\ writer[1].site = "label" /\ writer[1].src = 2
    /\ writer[2].site = "line" /\ writer[3].site = "line"

IsSep(chunk) == chunk.site = "sep"

\* handle_file calls that have returned
FilesReturned == IF pc \in {"lines", "panic"} /\ fi > 0 THEN fi - 1 ELSE fi

C7_RecursiveNeedsOnePath ==
    (args.recursive /\ Len(args.filenames) # 1 /\ pc # "grep") =>
        (pc = "panic" /\ total = 0 /\ writer = <<>> /\ stdoutv = <<>>)

\* C8: in recursive mode a file that cannot be opened does not end the run.
C8_UnopenableFileSkipped ==
    ~(WalkMode /\ pc = "panic" /\ panicmsg = "ERROR, file cannot be opened")

\* C9: nothing is written to the process's standard output, in any mode.
C9_OnlyTheWriter == stdoutv = <<>>

====
